---------------------------- MODULE Spec2Model ----------------------------
(***************************************************************************)
(* Resource manager of the device plugin (internal/rm/rm.go):              *)
(*   NewResourceManagers, Resource, Devices, CheckHealth,                  *)
(*   GetPreferredAllocation and AddDefaultResourcesToConfig.               *)
(*                                                                         *)
(* NVML (nvml.Init, nvml.Shutdown, nvinfo.HasNVML) is the environment: its *)
(* return codes are chosen nondeterministically.  Every operation has its  *)
(* own specification (SpecNRM, SpecDefaults, SpecAlloc, SpecHealth) over   *)
(* the same variables.                                                     *)
(***************************************************************************)
EXTENDS Integers, Sequences, FiniteSets

\* ------------------------------------------------------------------ bounds
\* Device IDs are 1..NumDevices; the number is also the enumeration index.
NumDevices == 3
\* Resource names are 1..NumResources.
NumResources == 2
\* MIG profiles the hardware can report are 1..NumProfiles.
NumProfiles == 2
\* Hardware health events delivered to one CheckHealth loop.
MaxEvents == 3

DeviceIDs == 1..NumDevices
ResourceNames == 1..NumResources
MigProfiles == 1..NumProfiles

VARIABLES
    config,             \* *spec.Config: Flags.FailOnInitError, Flags.MigStrategy, Resources
    nvmlOpen,           \* successful nvml.Init() calls not yet matched by nvml.Shutdown()
    nvmlShutdownCalls,  \* number of nvml.Shutdown() calls made
    log,                \* messages written with log.Printf
    nrm_pc,             \* position inside NewResourceManagers
    nrm_initOk,         \* nvml.Init() returned SUCCESS in NewResourceManagers
    buildCalls,         \* number of buildDeviceMap calls
    buildErr,           \* err of buildDeviceMap ("none" before the call)
    deviceMap,          \* result of buildDeviceMap: resource name -> device set
    pending,            \* keys of deviceMap the range loop has not visited yet
    rms,                \* var rms []ResourceManager
    nrm_ret,            \* value returned by NewResourceManagers
    adr_pc,             \* position inside AddDefaultResourcesToConfig
    adr_probe,          \* result of nvinfo.HasNVML ("none" before the probe)
    adr_init,           \* result of nvml.Init in AddDefaultResourcesToConfig ("none" before)
    invalidNames,       \* resource names the config API rejects
    toWalk,             \* MIG profiles walkMigProfiles has still to visit
    adr_ret,            \* error returned by AddDefaultResourcesToConfig
    r,                  \* the resourceManager the per-manager operations run on
    ga_pc,              \* position of the GetPreferredAllocation call
    ga_in,              \* its arguments (available, required, size)
    ga_out,             \* its result (allocation, error)
    hm_state,           \* health monitor: Idle, Watching, Stopped
    hm_sub,             \* health-event subscription is held
    hm_closes,          \* number of times the subscription was released
    stop,               \* the stop signal has been raised
    health,             \* Device.Health of every device
    unhealthy,          \* devices sent on the unhealthy channel, in order
    hm_nevents,         \* hardware events consumed so far
    hm_last,            \* the last event consumed and whether it was published
    hm_ret              \* error returned by CheckHealth ("running" before it returns)

nvmlVars == <<nvmlOpen, nvmlShutdownCalls, log>>
nrmVars == <<nrm_pc, nrm_initOk, buildCalls, buildErr, deviceMap, pending, rms, nrm_ret>>
adrVars == <<adr_pc, adr_probe, adr_init, invalidNames, toWalk, adr_ret>>
gaVars == <<r, ga_pc, ga_in, ga_out>>
hmVars == <<hm_state, hm_sub, hm_closes, stop, health, unhealthy, hm_nevents, hm_last, hm_ret>>
vars == <<config, nvmlVars, nrmVars, adrVars, gaVars, hmVars>>

Range(s) == {s[i] : i \in 1..Len(s)}

\* nvml return codes
NvmlReturns == {"SUCCESS", "ERROR"}

NoError == "nil"

\* ------------------------------------------------- states before any call
IdleNvml ==
    /\ nvmlOpen = 0
    /\ nvmlShutdownCalls = 0
    /\ log = {}

IdleNRM ==
    /\ nrm_pc = "start"
    /\ nrm_initOk = FALSE
    /\ buildCalls = 0
    /\ buildErr = "none"
    /\ deviceMap = <<>>
    /\ pending = {}
    /\ rms = <<>>
    /\ nrm_ret = [rms |-> <<>>, err |-> "none"]

IdleADR ==
    /\ adr_pc = "start"
    /\ adr_probe = "none"
    /\ adr_init = "none"
    /\ invalidNames = {}
    /\ toWalk = {}
    /\ adr_ret = "none"

IdleGA ==
    /\ ga_pc = "idle"
    /\ ga_in = [available |-> <<>>, required |-> <<>>, size |-> 0]
    /\ ga_out = [alloc |-> <<>>, err |-> "none"]

IdleHM ==
    /\ hm_state = "Idle"
    /\ hm_sub = FALSE
    /\ hm_closes = 0
    /\ stop = FALSE
    /\ health = [d \in DeviceIDs |-> "Healthy"]
    /\ unhealthy = <<>>
    /\ hm_nevents = 0
    /\ hm_last = [dev |-> 0, critical |-> FALSE, published |-> FALSE]
    /\ hm_ret = "running"

\* ------------------------------------------------------- resourceManager
\* Resource gets the resource name associated with the ResourceManager
Resource(m) == m.resource

\* Devices gets the devices managed by the ResourceManager
Devices(m) == m.devices

\* the deferred nvml.Shutdown(): its failure is only logged
DeferredShutdown(ret) ==
    /\ nvmlShutdownCalls' = nvmlShutdownCalls + 1
    /\ nvmlOpen' = nvmlOpen - 1
    /\ log' = IF ret # "SUCCESS" THEN log \cup {"Error shutting down NVML"} ELSE log

\* ---------------------------------------------------- NewResourceManagers
\* Device maps buildDeviceMap can return: a device belongs to one resource
\* name at most.
DeviceMaps ==
    {dm \in UNION {[names -> SUBSET DeviceIDs] : names \in SUBSET ResourceNames} :
        \A a, b \in DOMAIN dm : a # b => dm[a] \cap dm[b] = {}}

\* faulty variant: the flag is not consulted
InitFailureResult_IgnoresFlag(failOnInitError) ==
    [rms |-> <<>>, err |-> NoError]

\* what NewResourceManagers returns when nvml.Init fails
InitFailureResult(failOnInitError) ==
    IF failOnInitError
    THEN [rms |-> <<>>, err |-> "failed to initialize NVML"]
    ELSE [rms |-> <<>>, err |-> NoError]

\* nvml.Init() fails: log, then return by the FailOnInitError flag
NRM_InitFail ==
    /\ nrm_pc = "start"
    /\ log' = log \cup {"Failed to initialize NVML"}
    /\ nrm_ret' = InitFailureResult(config.FailOnInitError)
    /\ nrm_pc' = "done"
    /\ UNCHANGED <<config, nvmlOpen, nvmlShutdownCalls, nrm_initOk, buildCalls,
                   buildErr, deviceMap, pending, rms, adrVars, gaVars, hmVars>>

\* nvml.Init() succeeds: the shutdown is deferred
NRM_InitOk ==
    /\ nrm_pc = "start"
    /\ nvmlOpen' = nvmlOpen + 1
    /\ nrm_initOk' = TRUE
    /\ nrm_pc' = "build"
    /\ UNCHANGED <<config, nvmlShutdownCalls, log, buildCalls, buildErr, deviceMap, pending,
                   rms, nrm_ret, adrVars, gaVars, hmVars>>

\* faulty variant: the shutdown is not deferred and the error path skips it
NRM_BuildFail_NoShutdown ==
    /\ nrm_pc = "build"
    /\ buildCalls' = buildCalls + 1
    /\ buildErr' = "error"
    /\ nrm_ret' = [rms |-> <<>>, err |-> "error building device map"]
    /\ nrm_pc' = "done"
    /\ UNCHANGED <<config, nvmlVars, nrm_initOk, deviceMap, pending, rms,
                   adrVars, gaVars, hmVars>>

\* faulty variant: a build failure is treated like an initialization failure
NRM_BuildFail_Degraded ==
    /\ nrm_pc = "build"
    /\ buildCalls' = buildCalls + 1
    /\ buildErr' = "error"
    /\ nrm_ret' = InitFailureResult(config.FailOnInitError)
    /\ nrm_pc' = "done"
    /\ \E ret \in NvmlReturns : DeferredShutdown(ret)
    /\ UNCHANGED <<config, nrm_initOk, deviceMap, pending, rms,
                   adrVars, gaVars, hmVars>>

\* buildDeviceMap fails: return the error, the deferred shutdown runs
NRM_BuildFail ==
    /\ nrm_pc = "build"
    /\ buildCalls' = buildCalls + 1
    /\ buildErr' = "error"
    /\ nrm_ret' = [rms |-> <<>>, err |-> "error building device map"]
    /\ nrm_pc' = "done"
    /\ \E ret \in NvmlReturns : DeferredShutdown(ret)
    /\ UNCHANGED <<config, nrm_initOk, deviceMap, pending, rms,
                   adrVars, gaVars, hmVars>>

\* buildDeviceMap succeeds
NRM_BuildOk ==
    /\ nrm_pc = "build"
    /\ buildCalls' = buildCalls + 1
    /\ buildErr' = NoError
    /\ \E dm \in DeviceMaps :
        /\ deviceMap' = dm
        /\ pending' = DOMAIN dm
    /\ rms' = <<>>
    /\ nrm_pc' = "loop"
    /\ UNCHANGED <<config, nvmlVars, nrm_initOk, nrm_ret, adrVars, gaVars, hmVars>>

\* faulty variant: the length test is missing
NRM_Loop_KeepsEmpty ==
    /\ nrm_pc = "loop"
    /\ \E resourceName \in pending :
        /\ rms' = Append(rms, [resource |-> resourceName, devices |-> deviceMap[resourceName]])
        /\ pending' = pending \ {resourceName}
    /\ UNCHANGED <<config, nvmlVars, nrm_pc, nrm_initOk, buildCalls, buildErr, deviceMap,
                   nrm_ret, adrVars, gaVars, hmVars>>

\* one iteration of the range loop over deviceMap (Go visits the keys in any order)
NRM_Loop ==
    /\ nrm_pc = "loop"
    /\ \E resourceName \in pending :
        LET m == [resource |-> resourceName, devices |-> deviceMap[resourceName]]
        IN  /\ rms' = IF Cardinality(Devices(m)) # 0 THEN Append(rms, m) ELSE rms
            /\ pending' = pending \ {resourceName}
    /\ UNCHANGED <<config, nvmlVars, nrm_pc, nrm_initOk, buildCalls, buildErr, deviceMap,
                   nrm_ret, adrVars, gaVars, hmVars>>

\* the loop is over: return rms, the deferred shutdown runs
NRM_Return ==
    /\ nrm_pc = "loop"
    /\ pending = {}
    /\ nrm_ret' = [rms |-> rms, err |-> NoError]
    /\ nrm_pc' = "done"
    /\ \E ret \in NvmlReturns : DeferredShutdown(ret)
    /\ UNCHANGED <<config, nrm_initOk, buildCalls, buildErr, deviceMap, pending, rms,
                   adrVars, gaVars, hmVars>>

InitNRM ==
    /\ config \in [FailOnInitError : BOOLEAN, MigStrategy : {"none"}, Resources : {<<>>}]
    /\ r = [resource |-> 0, devices |-> {}]
    /\ IdleNvml /\ IdleNRM /\ IdleADR /\ IdleGA /\ IdleHM

NextNRM ==
    \/ NRM_InitFail
    \/ NRM_InitOk
    \/ NRM_BuildFail
    \/ NRM_BuildOk
    \/ NRM_Loop
    \/ NRM_Return

SpecNRM == InitNRM /\ [][NextNRM]_vars

\* ------------------------------------------- AddDefaultResourcesToConfig
MigStrategyNone == "none"
MigStrategySingle == "single"
MigStrategyMixed == "mixed"
MigStrategies == {MigStrategyNone, MigStrategySingle, MigStrategyMixed}

\* patterns and resource names: "*", "gpu", migProfile, "mig-"+migProfile
Wildcard == <<"*">>
GpuName == <<"gpu">>
ProfilePattern(migProfile) == <<"profile", migProfile>>
MigName(migProfile) == <<"mig-", migProfile>>

\* a rule is added unless the resource name is rejected
AddResource(kind, resources, pattern, name) ==
    IF name \in invalidNames
    THEN [resources |-> resources, err |-> "invalid resource name"]
    ELSE [resources |-> Append(resources, [kind |-> kind, pattern |-> pattern, name |-> name]),
          err |-> NoError]

\* config.Resources.AddGPUResource(pattern, name)
AddGPUResource(resources, pattern, name) == AddResource("gpu", resources, pattern, name)

\* config.Resources.AddMIGResource(pattern, name)
AddMIGResource(resources, pattern, name) == AddResource("mig", resources, pattern, name)

\* config.Resources after the first statement; its error is dropped
WithDefaultGPU == AddGPUResource(config.Resources, Wildcard, GpuName).resources

\* what AddDefaultResourcesToConfig returns when nvml.Init fails
ADRInitFailureResult(failOnInitError) ==
    IF failOnInitError THEN "failed to initialize NVML" ELSE NoError

\* no MIG strategy: only the whole-GPU rule
ADR_None ==
    /\ adr_pc = "start"
    /\ config.MigStrategy = MigStrategyNone
    /\ config' = [config EXCEPT !.Resources = WithDefaultGPU]
    /\ adr_ret' = NoError
    /\ adr_pc' = "done"
    /\ UNCHANGED <<nvmlVars, nrmVars, adr_probe, adr_init, invalidNames, toWalk,
                   gaVars, hmVars>>

\* single strategy: MIG devices are advertised as "gpu" too
ADR_Single ==
    /\ adr_pc = "start"
    /\ config.MigStrategy = MigStrategySingle
    /\ LET added == AddMIGResource(WithDefaultGPU, Wildcard, GpuName)
       IN  /\ config' = [config EXCEPT !.Resources = added.resources]
           /\ adr_ret' = added.err
    /\ adr_pc' = "done"
    /\ UNCHANGED <<nvmlVars, nrmVars, adr_probe, adr_init, invalidNames, toWalk,
                   gaVars, hmVars>>

\* faulty variant: the return after the warning is missing and Init succeeds
ADR_ProbeFail_FallsThrough ==
    /\ adr_pc = "start"
    /\ config.MigStrategy = MigStrategyMixed
    /\ config' = [config EXCEPT !.Resources = WithDefaultGPU]
    /\ adr_probe' = "failed"
    /\ log' = log \cup {"NVML not detected"}
    /\ adr_init' = "SUCCESS"
    /\ nvmlOpen' = nvmlOpen + 1
    /\ \E profiles \in SUBSET MigProfiles : toWalk' = profiles
    /\ adr_pc' = "walk"
    /\ UNCHANGED <<nvmlShutdownCalls, nrmVars, adr_ret, invalidNames, gaVars, hmVars>>

\* mixed strategy, nvinfo.HasNVML() is false: warn and return nil
ADR_ProbeFail ==
    /\ adr_pc = "start"
    /\ config.MigStrategy = MigStrategyMixed
    /\ config' = [config EXCEPT !.Resources = WithDefaultGPU]
    /\ adr_probe' = "failed"
    /\ log' = log \cup {"NVML not detected"}
    /\ adr_ret' = NoError
    /\ adr_pc' = "done"
    /\ UNCHANGED <<nvmlOpen, nvmlShutdownCalls, nrmVars, adr_init, invalidNames,
                   toWalk, gaVars, hmVars>>

\* mixed strategy, NVML detected, nvml.Init() fails
ADR_InitFail ==
    /\ adr_pc = "start"
    /\ config.MigStrategy = MigStrategyMixed
    /\ config' = [config EXCEPT !.Resources = WithDefaultGPU]
    /\ adr_probe' = "ok"
    /\ adr_init' = "ERROR"
    /\ adr_ret' = ADRInitFailureResult(config.FailOnInitError)
    /\ adr_pc' = "done"
    /\ UNCHANGED <<nvmlVars, nrmVars, invalidNames, toWalk, gaVars, hmVars>>

\* mixed strategy, NVML detected, nvml.Init() succeeds: the shutdown is
\* deferred and walkMigProfiles starts
ADR_InitOk ==
    /\ adr_pc = "start"
    /\ config.MigStrategy = MigStrategyMixed
    /\ config' = [config EXCEPT !.Resources = WithDefaultGPU]
    /\ adr_probe' = "ok"
    /\ adr_init' = "SUCCESS"
    /\ nvmlOpen' = nvmlOpen + 1
    /\ \E profiles \in SUBSET MigProfiles : toWalk' = profiles
    /\ adr_pc' = "walk"
    /\ UNCHANGED <<nvmlShutdownCalls, log, nrmVars, invalidNames, adr_ret,
                   gaVars, hmVars>>

\* walkMigProfiles calls the callback on one profile; a callback error ends
\* the walk and is returned, the deferred shutdown runs
ADR_Walk ==
    /\ adr_pc = "walk"
    /\ \E migProfile \in toWalk :
        LET added == AddMIGResource(config.Resources, ProfilePattern(migProfile),
                                    MigName(migProfile))
        IN  /\ config' = [config EXCEPT !.Resources = added.resources]
            /\ toWalk' = toWalk \ {migProfile}
            /\ IF added.err # NoError
               THEN /\ adr_ret' = added.err
                    /\ adr_pc' = "done"
                    /\ \E ret \in NvmlReturns : DeferredShutdown(ret)
               ELSE UNCHANGED <<adr_ret, adr_pc, nvmlVars>>
    /\ UNCHANGED <<nrmVars, adr_probe, adr_init, invalidNames, gaVars, hmVars>>

\* walkMigProfiles fails on its own (an NVML query error)
ADR_WalkFail ==
    /\ adr_pc = "walk"
    /\ adr_ret' = "error walking MIG profiles"
    /\ adr_pc' = "done"
    /\ \E ret \in NvmlReturns : DeferredShutdown(ret)
    /\ UNCHANGED <<config, nrmVars, adr_probe, adr_init, invalidNames, toWalk,
                   gaVars, hmVars>>

\* walkMigProfiles visited every profile
ADR_WalkDone ==
    /\ adr_pc = "walk"
    /\ toWalk = {}
    /\ adr_ret' = NoError
    /\ adr_pc' = "done"
    /\ \E ret \in NvmlReturns : DeferredShutdown(ret)
    /\ UNCHANGED <<config, nrmVars, adr_probe, adr_init, invalidNames, toWalk,
                   gaVars, hmVars>>

InitDefaults ==
    /\ config \in [FailOnInitError : BOOLEAN, MigStrategy : MigStrategies, Resources : {<<>>}]
    /\ r = [resource |-> 0, devices |-> {}]
    /\ IdleNvml /\ IdleNRM /\ IdleGA /\ IdleHM
    /\ adr_pc = "start"
    /\ adr_probe = "none"
    /\ adr_init = "none"
    /\ invalidNames \in SUBSET {MigName(p) : p \in MigProfiles}
    /\ toWalk = {}
    /\ adr_ret = "none"

NextDefaults ==
    \/ ADR_None
    \/ ADR_Single
    \/ ADR_ProbeFail
    \/ ADR_InitFail
    \/ ADR_InitOk
    \/ ADR_Walk
    \/ ADR_WalkFail
    \/ ADR_WalkDone

SpecDefaults == InitDefaults /\ [][NextDefaults]_vars

\* ------------------------------------------------ GetPreferredAllocation
\* ordered sets of device IDs
InjSeqs(S) ==
    UNION {{s \in [1..n -> S] : \A i, j \in 1..n : s[i] = s[j] => i = j} :
           n \in 0..Cardinality(S)}

Min(S) == CHOOSE x \in S : \A y \in S : x <= y

\* the devices of S by ascending index
RECURSIVE Ranked(_)
Ranked(S) == IF S = {} THEN <<>> ELSE <<Min(S)>> \o Ranked(S \ {Min(S)})

\* the contract of an allocation request on manager m
ValidRequest(m, available, required, size) ==
    /\ Range(required) \subseteq Range(available)
    /\ Len(required) <= size
    /\ size <= Len(available)
    /\ Range(available) \subseteq Devices(m)

\* the allocation engine: validate, start with required, append the best
\* ranked of the remaining available devices
getPreferredAllocation(m, available, required, size) ==
    IF ~ValidRequest(m, available, required, size)
    THEN [alloc |-> <<>>, err |-> "InvalidRequest"]
    ELSE [alloc |-> required \o
                    SubSeq(Ranked(Range(available) \ Range(required)),
                           1, size - Len(required)),
          err |-> NoError]

\* faulty variant: the two ID lists are passed in the wrong order
GetPreferredAllocation_Swapped(m, available, required, size) ==
    getPreferredAllocation(m, required, available, size)

\* faulty variant: required is not passed on
GetPreferredAllocation_DropsRequired(m, available, required, size) ==
    getPreferredAllocation(m, available, <<>>, size)

\* GetPreferredAllocation runs the allocation algorithm over the inputs
GetPreferredAllocation(m, available, required, size) ==
    getPreferredAllocation(m, available, required, size)

\* one call of r.GetPreferredAllocation
GA_Call ==
    /\ ga_pc = "ready"
    /\ ga_out' = GetPreferredAllocation(r, ga_in.available, ga_in.required, ga_in.size)
    /\ ga_pc' = "returned"
    /\ UNCHANGED <<config, nvmlVars, nrmVars, adrVars, r, ga_in, hmVars>>

\* a manager as NewResourceManagers returns them: at least one device
Managers == [resource : ResourceNames, devices : (SUBSET DeviceIDs) \ {{}}]

InitAlloc ==
    /\ config = [FailOnInitError |-> FALSE, MigStrategy |-> MigStrategyNone, Resources |-> <<>>]
    /\ r \in {m \in Managers : Resource(m) = 1}
    /\ IdleNvml /\ IdleNRM /\ IdleADR /\ IdleHM
    /\ ga_pc = "ready"
    /\ ga_in \in [available : InjSeqs(DeviceIDs), required : InjSeqs(DeviceIDs),
                  size : 0..(NumDevices + 1)]
    /\ ga_out = [alloc |-> <<>>, err |-> "none"]

NextAlloc == GA_Call

SpecAlloc == InitAlloc /\ [][NextAlloc]_vars

\* ------------------------------------------------------------ CheckHealth
\* faulty variant: the stop channel is not passed on
CheckHealthArgs_NilStop == [stop |-> FALSE, devices |-> r.devices]

\* faulty variant: every device is passed instead of the manager's own
CheckHealthArgs_AllDevices == [stop |-> stop, devices |-> DeviceIDs]

\* CheckHealth hands its stop channel and the manager's devices to checkHealth
CheckHealthArgs == [stop |-> stop, devices |-> r.devices]

\* Idle -> Watching: the event subscription is acquired
CH_Subscribe ==
    /\ hm_state = "Idle"
    /\ hm_state' = "Watching"
    /\ hm_sub' = TRUE
    /\ UNCHANGED <<config, nvmlVars, nrmVars, adrVars, gaVars, hm_closes, stop,
                   health, unhealthy, hm_nevents, hm_last, hm_ret>>

\* the subscription itself fails: the error is returned
CH_SubscribeFail ==
    /\ hm_state = "Idle"
    /\ hm_state' = "Stopped"
    /\ hm_ret' = "MonitorError"
    /\ UNCHANGED <<config, nvmlVars, nrmVars, adrVars, gaVars, hm_sub, hm_closes,
                   stop, health, unhealthy, hm_nevents, hm_last>>

\* one hardware event: a critical event on a healthy device of the pool
\* marks it Unhealthy and sends it on the unhealthy channel
CH_Event ==
    /\ hm_state = "Watching"
    /\ ~CheckHealthArgs.stop
    /\ hm_nevents < MaxEvents
    /\ \E d \in DeviceIDs, critical \in BOOLEAN :
        LET publish == d \in CheckHealthArgs.devices /\ critical /\ health[d] = "Healthy"
        IN  /\ health' = IF publish THEN [health EXCEPT ![d] = "Unhealthy"] ELSE health
            /\ unhealthy' = IF publish THEN Append(unhealthy, d) ELSE unhealthy
            /\ hm_last' = [dev |-> d, critical |-> critical, published |-> publish]
    /\ hm_nevents' = hm_nevents + 1
    /\ UNCHANGED <<config, nvmlVars, nrmVars, adrVars, gaVars, hm_state, hm_sub,
                   hm_closes, stop, hm_ret>>

\* an unrecoverable hardware error: release and return it
CH_MonitorError ==
    /\ hm_state = "Watching"
    /\ ~CheckHealthArgs.stop
    /\ hm_state' = "Stopped"
    /\ hm_sub' = FALSE
    /\ hm_closes' = hm_closes + 1
    /\ hm_ret' = "MonitorError"
    /\ UNCHANGED <<config, nvmlVars, nrmVars, adrVars, gaVars, stop, health,
                   unhealthy, hm_nevents, hm_last>>

\* the caller raises the stop signal
SignalStop ==
    /\ ~stop
    /\ stop' = TRUE
    /\ UNCHANGED <<config, nvmlVars, nrmVars, adrVars, gaVars, hm_state, hm_sub,
                   hm_closes, health, unhealthy, hm_nevents, hm_last, hm_ret>>

\* the stop signal is observed: release the subscription, return no error
CH_Stop ==
    /\ hm_state = "Watching"
    /\ CheckHealthArgs.stop
    /\ hm_state' = "Stopped"
    /\ hm_sub' = FALSE
    /\ hm_closes' = hm_closes + 1
    /\ hm_ret' = NoError
    /\ UNCHANGED <<config, nvmlVars, nrmVars, adrVars, gaVars, stop, health,
                   unhealthy, hm_nevents, hm_last>>

InitHealth ==
    /\ config = [FailOnInitError |-> FALSE, MigStrategy |-> MigStrategyNone, Resources |-> <<>>]
    /\ r \in {m \in Managers : Resource(m) = 1}
    /\ IdleNvml /\ IdleNRM /\ IdleADR /\ IdleGA /\ IdleHM

NextHealth ==
    \/ CH_Subscribe
    \/ CH_SubscribeFail
    \/ CH_Event
    \/ CH_MonitorError
    \/ SignalStop
    \/ CH_Stop

\* the monitor's select takes the stop branch once the signal is raised
SpecHealth == InitHealth /\ [][NextHealth]_vars /\ WF_vars(CH_Stop)

\* ================================================================ claims

\* C1: when nvml.Init fails, NewResourceManagers returns an error exactly
\* when FailOnInitError is set, returns no managers either way, and never
\* calls buildDeviceMap.
C1_InitFailureByFlag ==
    (nrm_pc = "done" /\ ~nrm_initOk) =>
        /\ (nrm_ret.err # NoError) <=> config.FailOnInitError
        /\ nrm_ret.rms = <<>>
        /\ buildCalls = 0
        /\ buildErr = "none"

C1_Witness ==
    /\ nrm_pc = "done"
    /\ ~nrm_initOk
    /\ ~config.FailOnInitError
    /\ nrm_ret = [rms |-> <<>>, err |-> NoError]

\* C2: every manager returned has at least one device; a name of the device
\* map with no devices gets no manager, every other name gets exactly one
\* manager, carrying that name and its device set.
C2_NoEmptyManagers ==
    /\ \A i \in 1..Len(nrm_ret.rms) : Devices(nrm_ret.rms[i]) # {}
    /\ (nrm_pc = "done" /\ buildErr = NoError) =>
        /\ nrm_ret.err = NoError
        /\ \A i \in 1..Len(nrm_ret.rms) :
            /\ Resource(nrm_ret.rms[i]) \in DOMAIN deviceMap
            /\ Devices(nrm_ret.rms[i]) = deviceMap[Resource(nrm_ret.rms[i])]
        /\ \A name \in DOMAIN deviceMap :
            Cardinality({i \in 1..Len(nrm_ret.rms) : Resource(nrm_ret.rms[i]) = name})
                = IF deviceMap[name] = {} THEN 0 ELSE 1

C2_Witness ==
    /\ nrm_pc = "done"
    /\ buildErr = NoError
    /\ Len(nrm_ret.rms) = 1
    /\ \E name \in DOMAIN deviceMap : deviceMap[name] = {}

\* C3: nvml.Shutdown is called exactly once, at the return, in every call
\* in which nvml.Init succeeded (also when buildDeviceMap fails), never
\* otherwise, and no Init is left unmatched once the call has returned.
C3_ShutdownOnEveryPath ==
    /\ nrm_pc # "done" => nvmlShutdownCalls = 0
    /\ nrm_pc = "done" =>
        /\ nvmlShutdownCalls = IF nrm_initOk THEN 1 ELSE 0
        /\ nvmlOpen = 0

C3_Witness ==
    /\ nrm_pc = "done"
    /\ nrm_initOk
    /\ buildErr = "error"
    /\ nvmlShutdownCalls = 1
    /\ nvmlOpen = 0

\* C9: when nvml.Init succeeds and buildDeviceMap fails, NewResourceManagers
\* returns an error and no managers, whatever FailOnInitError is.
C9_BuildFailureIsAnError ==
    (nrm_pc = "done" /\ nrm_initOk /\ buildErr = "error") =>
        /\ nrm_ret.err = "error building device map"
        /\ nrm_ret.rms = <<>>

C9_Witness ==
    /\ nrm_pc = "done"
    /\ nrm_initOk
    /\ buildErr = "error"
    /\ ~config.FailOnInitError
    /\ nrm_ret.err # NoError

\* the whole-GPU rule ("*" -> "gpu")
DefaultGPURule == [kind |-> "gpu", pattern |-> Wildcard, name |-> GpuName]

\* a per-profile partition rule is in config.Resources
HasProfileRule ==
    \E i \in 1..Len(config.Resources), p \in MigProfiles :
        config.Resources[i] = [kind |-> "mig", pattern |-> ProfilePattern(p), name |-> MigName(p)]

\* C10: the whole-GPU rule is added first, before any partition rule; under
\* the mixed strategy per-profile rules appear only after HasNVML and
\* nvml.Init succeeded, a failed probe returns nil with only the whole-GPU
\* rule, a failed Init returns an error exactly when FailOnInitError is set,
\* and a successful Init is followed by exactly one Shutdown at the return.
C10_DefaultResources ==
    /\ adr_pc # "start" =>
        /\ Len(config.Resources) >= 1
        /\ config.Resources[1] = DefaultGPURule
    /\ \A i \in 1..Len(config.Resources) :
        config.Resources[i].kind = "mig" =>
            \E j \in 1..(i - 1) : config.Resources[j] = DefaultGPURule
    /\ (config.MigStrategy = MigStrategyMixed /\ HasProfileRule) =>
        (adr_probe = "ok" /\ adr_init = "SUCCESS")
    /\ config.MigStrategy # MigStrategyMixed => ~HasProfileRule
    /\ (adr_pc = "done" /\ adr_probe = "failed") =>
        /\ adr_ret = NoError
        /\ config.Resources = <<DefaultGPURule>>
        /\ adr_init = "none"
    /\ (adr_pc = "done" /\ adr_init = "ERROR") =>
        ((adr_ret # NoError) <=> config.FailOnInitError)
    /\ adr_pc # "done" => nvmlShutdownCalls = 0
    /\ adr_pc = "done" =>
        /\ nvmlShutdownCalls = IF adr_init = "SUCCESS" THEN 1 ELSE 0
        /\ nvmlOpen = 0

C10_Witness ==
    /\ adr_pc = "done"
    /\ config.MigStrategy = MigStrategyMixed
    /\ adr_init = "SUCCESS"
    /\ HasProfileRule
    /\ adr_ret # NoError
    /\ nvmlShutdownCalls = 1

\* a request the claims call valid: required within available and
\* len(required) <= size <= len(available)
StatedValid ==
    /\ Range(ga_in.required) \subseteq Range(ga_in.available)
    /\ Len(ga_in.required) <= ga_in.size
    /\ ga_in.size <= Len(ga_in.available)

\* the available devices all belong to the manager's pool
AvailableInPool == Range(ga_in.available) \subseteq Devices(r)

\* exactly size IDs, all from available, none repeated
ExactAllocation ==
    /\ ga_out.err = NoError
    /\ Len(ga_out.alloc) = ga_in.size
    /\ Range(ga_out.alloc) \subseteq Range(ga_in.available)
    /\ Cardinality(Range(ga_out.alloc)) = Len(ga_out.alloc)

\* C6 as stated: every valid request gets exactly size IDs, drawn from
\* available, none repeated.
C6_AsStated ==
    (ga_pc = "returned" /\ StatedValid) => ExactAllocation

\* C6 amended: every valid request whose available devices all belong to
\* the manager's pool gets exactly size IDs, drawn from available, none
\* repeated.
C6_ExactSize ==
    (ga_pc = "returned" /\ StatedValid /\ AvailableInPool) => ExactAllocation

C6_Witness ==
    /\ ga_pc = "returned"
    /\ StatedValid
    /\ AvailableInPool
    /\ 0 < Len(ga_in.required)
    /\ Len(ga_in.required) < ga_in.size
    /\ ga_in.size < Len(ga_in.available)
    /\ ExactAllocation

\* required is in the result, and is the result when size = len(required)
RequiredKept ==
    /\ Range(ga_in.required) \subseteq Range(ga_out.alloc)
    /\ ga_in.size = Len(ga_in.required) => ga_out.alloc = ga_in.required

\* C7 as stated: for every valid request the result contains required, and
\* is required in its order when size = len(required).
C7_AsStated ==
    (ga_pc = "returned" /\ StatedValid) => RequiredKept

\* C7 amended: for every valid request whose available devices all belong
\* to the manager's pool the result contains required, and is required in
\* its order when size = len(required).
C7_RequiredIncluded ==
    (ga_pc = "returned" /\ StatedValid /\ AvailableInPool) => RequiredKept

C7_Witness ==
    /\ ga_pc = "returned"
    /\ StatedValid
    /\ AvailableInPool
    /\ Len(ga_in.required) = 2
    /\ ga_in.required[1] > ga_in.required[2]
    /\ ga_in.size = 2
    /\ ga_out.alloc = ga_in.required

\* C8: a request with size < len(required), size > len(available) or
\* required outside available fails with InvalidRequest and no allocation.
C8_InvalidRequest ==
    (/\ ga_pc = "returned"
     /\ \/ ga_in.size < Len(ga_in.required)
        \/ ga_in.size > Len(ga_in.available)
        \/ ~(Range(ga_in.required) \subseteq Range(ga_in.available)))
    => (ga_out.err = "InvalidRequest" /\ ga_out.alloc = <<>>)

C8_Witness ==
    /\ ga_pc = "returned"
    /\ ~(Range(ga_in.required) \subseteq Range(ga_in.available))
    /\ Len(ga_in.required) <= ga_in.size
    /\ ga_in.size <= Len(ga_in.available)
    /\ AvailableInPool
    /\ ga_out.err = "InvalidRequest"

\* C4: once stop is raised while CheckHealth is watching, CheckHealth
\* eventually returns, with no error and the subscription released; a return
\* without error has always released the subscription exactly once.
C4_StopReturns ==
    /\ (stop /\ hm_state = "Watching")
         ~> (hm_state = "Stopped" /\ hm_ret = NoError /\ ~hm_sub)
    /\ [](hm_ret = NoError => (stop /\ hm_state = "Stopped" /\ ~hm_sub /\ hm_closes = 1))

C4_Witness ==
    /\ stop
    /\ hm_state = "Stopped"
    /\ hm_ret = NoError
    /\ ~hm_sub
    /\ hm_closes = 1
    /\ hm_nevents > 0

\* C5: a device is sent on the unhealthy channel at most once, only devices
\* of the manager's pool are sent, and an Unhealthy device never becomes
\* Healthy again.
C5_AtMostOnce ==
    /\ [](/\ Cardinality(Range(unhealthy)) = Len(unhealthy)
          /\ Range(unhealthy) \subseteq Devices(r)
          /\ \A d \in DeviceIDs : health[d] = "Unhealthy" <=> d \in Range(unhealthy))
    /\ [][\A d \in DeviceIDs : health[d] = "Unhealthy" => health'[d] = "Unhealthy"]_vars

C5_Witness ==
    /\ hm_last.dev \in Devices(r)
    /\ hm_last.critical
    /\ ~hm_last.published
    /\ health[hm_last.dev] = "Unhealthy"
    /\ Len(unhealthy) = 1
    /\ hm_nevents = MaxEvents

=============================================================================
